---------------------------- MODULE Spec2Model ----------------------------
(* The fetch-shopify-data proxy (both variants kept in                     *)
(* supabase/functions/fetch-shopify-data/index.ts) and the Data Viewer's   *)
(* fetchData that calls it.                                                *)
EXTENDS Integers, Sequences, FiniteSets, TLC

(***************************************************************************)
(* Bounds of the model.                                                    *)
(***************************************************************************)
MaxEdges == 2
MaxErrors == 2
MaxInserted == 1
MaxNodes == 1
MaxFetches == 3

(***************************************************************************)
(* JavaScript / JSON values, tagged so that values of different types can  *)
(* be compared.                                                            *)
(***************************************************************************)
Undefined == [t |-> "undefined"]
Null == [t |-> "null"]
Fn == [t |-> "function"]
Str(s) == [t |-> "string", v |-> s]
Num(n) == [t |-> "number", v |-> n]
Arr(a) == [t |-> "array", v |-> a]
Obj(f) == [t |-> "object", v |-> f]

\* JavaScript truthiness, as used by `!x`, `a || b` and `if (x)`.
Truthy(x) ==
  CASE x.t = "undefined" -> FALSE
    [] x.t = "null" -> FALSE
    [] x.t = "string" -> x.v # ""
    [] x.t = "number" -> x.v # 0
    [] OTHER -> TRUE

\* Property read o.k on a plain JSON object; undefined when the key is absent.
Get(o, k) == IF o.t = "object" /\ k \in DOMAIN o.v THEN o.v[k] ELSE Undefined

\* Optional chaining o?.k : undefined when o is null or undefined.
OptGet(o, k) == IF o.t \in {"undefined", "null"} THEN Undefined ELSE Get(o, k)

RECURSIVE SeqUpTo(_, _)
SeqUpTo(S, n) ==
  IF n = 0 THEN {<< >>}
  ELSE LET shorter == SeqUpTo(S, n - 1)
       IN shorter \cup {Append(s, x) : s \in {q \in shorter : Len(q) = n - 1}, x \in S}

\* JSON.stringify followed by JSON.parse: object members whose value is
\* undefined or a function are dropped, array members of that kind become null.
RECURSIVE JSONRoundTrip(_)
JSONRoundTrip(x) ==
  CASE x.t = "object" ->
         Obj([k \in {j \in DOMAIN x.v : x.v[j].t \notin {"undefined", "function"}}
                |-> JSONRoundTrip(x.v[k])])
    [] x.t = "array" ->
         Arr([i \in 1..Len(x.v) |->
                IF x.v[i].t \in {"undefined", "function"} THEN Null
                ELSE JSONRoundTrip(x.v[i])])
    [] OTHER -> x

\* The text JSON.stringify produces (members in some fixed order).
RECURSIVE JSONText(_)
RECURSIVE JSONMembers(_, _)
RECURSIVE JSONItems(_, _)
JSONMembers(f, keys) ==
  IF keys = {} THEN ""
  ELSE LET k == CHOOSE j \in keys : TRUE
           rest == keys \ {k}
       IN "\"" \o k \o "\":" \o JSONText(f[k])
          \o (IF rest = {} THEN "" ELSE "," \o JSONMembers(f, rest))
JSONItems(a, i) ==
  IF i > Len(a) THEN ""
  ELSE JSONText(a[i]) \o (IF i = Len(a) THEN "" ELSE "," \o JSONItems(a, i + 1))
JSONText(x) ==
  CASE x.t = "string" -> "\"" \o x.v \o "\""
    [] x.t = "number" -> ToString(x.v)
    [] x.t = "null" -> "null"
    [] x.t = "array" -> "[" \o JSONItems(x.v, 1) \o "]"
    [] x.t = "object" ->
         "{" \o JSONMembers(x.v, {j \in DOMAIN x.v :
                                    x.v[j].t \notin {"undefined", "function"}}) \o "}"
    [] OTHER -> "undefined"


(***************************************************************************)
(* Static configuration of the proxy.                                      *)
(***************************************************************************)
corsHeaders ==
  ("Access-Control-Allow-Origin" :> "*")
  @@ ("Access-Control-Allow-Headers" :> "authorization, x-client-info, apikey, content-type")

\* { ...corsHeaders, 'Content-Type': 'application/json' }
jsonHeaders == ("Content-Type" :> "application/json") @@ corsHeaders

\* The keys of the QUERIES object literal.
QueryKeys == {"orders", "products", "customers"}

\* Names every object literal inherits from Object.prototype; reading one of
\* them through QUERIES[...] yields a function, not undefined.
ObjectPrototypeKeys == {"toString", "constructor"}

\* QUERIES[k]: the canned query (kept by its root field, page size, sort key
\* and direction), an inherited member, or undefined.
QUERIES(k) ==
  IF k \in QueryKeys
    THEN Obj([root |-> Str(k), first |-> Num(20),
              sortKey |-> Str(IF k = "orders" THEN "PROCESSED_AT" ELSE "UPDATED_AT"),
              reverse |-> Str("true")])
  ELSE IF k \in ObjectPrototypeKeys THEN Fn
  ELSE Undefined

\* QUERIES[data_type] for a destructured data_type.
QueryFor(data_type) == IF data_type.t = "string" THEN QUERIES(data_type.v) ELSE Undefined

\* The rows of the `stores` table the proxy reads.
StoresTable ==
  1 :> Obj([shopify_domain |-> Str("shop.myshopify.com"), api_access_token |-> Str("shpat_1")])

(***************************************************************************)
(* Inputs: requests, credential lookups, upstream replies.                 *)
(***************************************************************************)
StoreIdValues == {Num(0), Num(1), Num(2)}
DataTypeValues == {Str(k) : k \in QueryKeys \cup ObjectPrototypeKeys \cup {"", "invoices"}}

\* What req.json() can meet: text that is no JSON, the JSON null, or an object
\* with any subset of the two fields.
RequestBodies ==
  {[t |-> "unparsable"], Null}
  \cup {Obj([k \in D |-> IF k = "store_id" THEN s ELSE d]) :
          D \in SUBSET {"store_id", "data_type"}, s \in StoreIdValues, d \in DataTypeValues}

Requests == [method : {"POST", "OPTIONS"}, body : RequestBodies]

\* Outcomes of .from('stores').select(...).eq('id', id).single(): the row, a
\* reported error with no row, or a fault thrown by the client.
LookupOutcomes(id) ==
  {[t |-> "result", data |-> Null, error |-> Obj([message |-> Str("lookup failed")])],
   [t |-> "throw", message |-> "supabase client failure"]}
  \cup (IF id.t = "number" /\ id.v \in DOMAIN StoresTable
          THEN {[t |-> "result", data |-> StoresTable[id.v], error |-> Null]}
          ELSE {})

StatusText(s) ==
  CASE s = 200 -> "OK"
    [] s = 401 -> "Unauthorized"
    [] s = 404 -> "Not Found"
    [] OTHER -> ""

Nodes == {Obj([id |-> Str("n1")]), Obj([id |-> Str("n2")])}
GraphQLErrors == {Obj([message |-> Str("m1")]), Obj([message |-> Str("m2")])}

EdgeLists == {Arr([i \in 1..Len(q) |-> Obj([node |-> q[i]])]) : q \in SeqUpTo(Nodes, MaxEdges)}
ErrorLists == {Arr(q) : q \in SeqUpTo(GraphQLErrors, MaxErrors)}

\* Upstream payloads for a query: { data: { <root>: { edges } } }, { errors },
\* or both; a request that carries no query text gets errors only.
Payloads(query) ==
  LET datas == IF query.t = "object"
                 THEN {Obj((Get(query, "root").v :> Obj([edges |-> e]))) : e \in EdgeLists}
                 ELSE {}
  IN {Obj([data |-> d]) : d \in datas}
     \cup {Obj([errors |-> e]) : e \in ErrorLists}
     \cup {Obj([data |-> d, errors |-> e]) : d \in datas, e \in ErrorLists}

\* What fetch() can come back with: a rejected promise, a non-success reply
\* with a raw text body, or a success reply whose body is JSON or is not.
UpstreamOutcomes(query) ==
  {[t |-> "throw", message |-> "error sending request"]}
  \cup {[t |-> "response", status |-> s, statusText |-> StatusText(s), body |-> Str(b)] :
          s \in {401, 404}, b \in {"", "{\"errors\":\"[API] Invalid API key\"}"}}
  \cup {[t |-> "response", status |-> 200, statusText |-> StatusText(200), body |-> b] :
          b \in {[t |-> "notjson"]} \cup Payloads(query)}

\* Response.ok
Ok(r) == r.status >= 200 /\ r.status <= 299


(***************************************************************************)
(* State.                                                                  *)
(***************************************************************************)
VARIABLES
  variant,          \* which of the two handlers of index.ts is deployed (1 or 2)
  pc,               \* stage of the current invocation
  caller,           \* "viewer" (Data Viewer) or "direct" (any other HTTP client)
  req,              \* the request being served
  store_id,         \* destructured from the body
  data_type,        \* destructured from the body
  store,            \* the credential row the lookup returned
  storeLookup,      \* what the credential lookup came back with
  shopifyResponse,  \* the upstream reply
  lookups,          \* credential lookups made by this invocation
  calls,            \* outbound calls made by this invocation
  responses,        \* responses this invocation returned
  cause,            \* the branch of the handler that ended the invocation
  activeTab,        \* Data Viewer state
  viewerStore,      \* the store prop of the Data Viewer
  loading,
  data,
  error,
  formData,         \* Store Manager: the shopify_domain field of the form
  inserted,         \* Store Manager: the shopify_domain values inserted into stores
  inputNodes,       \* Row Normalizer: the nodes handed to processData
  inputType,        \* Row Normalizer: the data type handed to processData
  rows,             \* Row Normalizer: what processData returned
  inflight,         \* Data Viewer: fetchData calls whose await has not resolved
  started,          \* Data Viewer: fetchData calls made so far
  dataFrom          \* Data Viewer: the fetchData call that stored `data`

proxyVars == <<variant, pc, caller, req, store_id, data_type, store, storeLookup, shopifyResponse,
               lookups, calls, responses, cause>>
viewerVars == <<activeTab, viewerStore, loading, data, error>>
managerVars == <<formData, inserted>>
normalizerVars == <<inputNodes, inputType, rows>>
asyncVars == <<inflight, started, dataFrom>>
vars == <<variant, pc, caller, req, store_id, data_type, store, storeLookup, shopifyResponse,
          lookups, calls, responses, cause, activeTab, viewerStore, loading, data, error,
          formData, inserted, inputNodes, inputType, rows, inflight, started, dataFrom>>

\* No fetchData call recorded.
NoFetch == [id |-> 0, store |-> 0, dataType |-> ""]

\* The Store Manager with an empty form and nothing inserted.
ManagerIdle ==
  /\ formData = [store_name |-> "", shopify_domain |-> "", api_access_token |-> ""]
  /\ inserted = << >>

\* No processData call made.
NormalizerIdle ==
  /\ inputNodes = << >>
  /\ inputType = "orders"
  /\ rows = [t |-> "rows", v |-> << >>]

\* No fetchData call tracked.
AsyncIdle == inflight = {} /\ started = 0 /\ dataFrom = NoFetch

NoUpstream == [t |-> "none"]
NoLookup == [t |-> "none"]

\* new Response(body, { status, headers }); status defaults to 200.
Response(body, status, headers) == [status |-> status, headers |-> headers, body |-> body]

\* new Response(JSON.stringify(value), ...) as the receiver parses it; a value
\* that stringifies to undefined gives an empty body.
JsonResponse(value, status) ==
  Response(IF value.t = "undefined" THEN Null ELSE JSONRoundTrip(value), status, jsonHeaders)

\* An OPTIONS reply that leaves the cross-origin headers out.
PreflightResponse_NoCors(v) ==
  IF v = 1 THEN Response(Null, 200, << >>) ELSE Response(Str("ok"), 200, << >>)

\* The OPTIONS reply of each handler.
PreflightResponse(v) ==
  IF v = 1 THEN Response(Null, 200, corsHeaders) ELSE Response(Str("ok"), 200, corsHeaders)

\* The catch block of each handler, for a caught error with the given message.
CatchResponse(v, message) ==
  IF v = 1
    THEN JsonResponse(Obj([error |-> Str("Internal server error"), details |-> Str(message)]), 500)
    ELSE JsonResponse(Obj([error |-> Str(message)]), 500)

\* A handler that awaits req.json() before entering its try block.
InTry_ParseOutside(stage) ==
  stage \in {"Validate", "ResolveCredential", "CallUpstream", "CheckPayloadErrors"}

\* Whether a fault raised at the given stage is inside the handler's try block.
InTry(stage) == stage \in {"Start", "Validate", "ResolveCredential", "CallUpstream", "CheckPayloadErrors"}

Respond(r, c, next) ==
  /\ responses' = Append(responses, r)
  /\ cause' = c
  /\ pc' = next

\* A catch block that tries the outbound call again when it was the call
\* that failed.
Throw_RetryCall(message, c) ==
  IF pc = "CallUpstream"
    THEN /\ pc' = "CallUpstream"
         /\ UNCHANGED <<responses, cause>>
    ELSE Respond(CatchResponse(variant, message), c, "Failed")

\* throw / a rejected await at the current stage.
Throw(message, c) ==
  IF InTry(pc)
    THEN Respond(CatchResponse(variant, message), c, "Failed")
    ELSE /\ pc' = "Unhandled"
         /\ cause' = c
         /\ UNCHANGED responses

\* No invocation of the proxy in progress.
ProxyIdle ==
  /\ variant \in {1, 2}
  /\ pc = "Idle"
  /\ caller = "direct"
  /\ req = [method |-> "POST", body |-> Null]
  /\ store_id = Undefined
  /\ data_type = Undefined
  /\ store = Null
  /\ storeLookup = NoLookup
  /\ shopifyResponse = NoUpstream
  /\ lookups = 0
  /\ calls = 0
  /\ responses = << >>
  /\ cause = "none"

\* The useState initial values of the Data Viewer.
ViewerMounted ==
  /\ activeTab = "orders"
  /\ viewerStore = 1
  /\ loading = FALSE
  /\ data = << >>
  /\ error = Null

Init ==
  /\ ProxyIdle
  /\ ViewerMounted
  /\ ManagerIdle
  /\ NormalizerIdle
  /\ AsyncIdle


(***************************************************************************)
(* The proxy handler, one action per stage (per await).                    *)
(***************************************************************************)
Responds(r) == [t |-> "respond", response |-> r]
Throws(message) == [t |-> "throw", message |-> message]
Passes == [t |-> "pass"]

\* return a response, or throw, as the branch taken says.
Finish(o, c) ==
  IF o.t = "respond" THEN Respond(o.response, c, "Failed") ELSE Throw(o.message, c)

BeginInvocation(r, c) ==
  /\ pc = "Idle"
  /\ pc' = "Start"
  /\ caller' = c
  /\ req' = r
  /\ store_id' = Undefined
  /\ data_type' = Undefined
  /\ store' = Null
  /\ storeLookup' = NoLookup
  /\ shopifyResponse' = NoUpstream
  /\ lookups' = 0
  /\ calls' = 0
  /\ responses' = << >>
  /\ cause' = "none"
  /\ UNCHANGED variant
  /\ UNCHANGED <<managerVars, normalizerVars, asyncVars>>

\* A request from any HTTP client.
DirectInvoke ==
  /\ \E r \in Requests : BeginInvocation(r, "direct")
  /\ UNCHANGED viewerVars
  /\ UNCHANGED <<managerVars, normalizerVars, asyncVars>>

\* if (req.method === 'OPTIONS') return new Response(...)
Preflight ==
  /\ pc = "Start"
  /\ req.method = "OPTIONS"
  /\ Respond(PreflightResponse(variant), "preflight", "Acked")
  /\ UNCHANGED <<variant, caller, req, store_id, data_type, store, storeLookup, shopifyResponse, lookups, calls>>
  /\ UNCHANGED viewerVars
  /\ UNCHANGED <<managerVars, normalizerVars, asyncVars>>

\* const { store_id, data_type } = await req.json();
ParseBody ==
  /\ pc = "Start"
  /\ req.method # "OPTIONS"
  /\ IF req.body.t = "object"
       THEN /\ store_id' = Get(req.body, "store_id")
            /\ data_type' = Get(req.body, "data_type")
            /\ pc' = "Validate"
            /\ UNCHANGED <<responses, cause>>
       ELSE /\ Throw("Unexpected token in JSON", "fault")
            /\ UNCHANGED <<store_id, data_type>>
  /\ UNCHANGED <<variant, caller, req, store, storeLookup, shopifyResponse, lookups, calls>>
  /\ UNCHANGED viewerVars
  /\ UNCHANGED <<managerVars, normalizerVars, asyncVars>>

\* The two validation checks of each handler.
Validation(v, sid, dt) ==
  IF ~Truthy(sid) \/ ~Truthy(dt)
    THEN IF v = 1
           THEN Responds(JsonResponse(Obj([error |-> Str("Missing store_id or data_type")]), 400))
           ELSE Throws("Missing required fields: store_id and data_type.")
  ELSE IF ~Truthy(QueryFor(dt))
    THEN IF v = 1
           THEN Responds(JsonResponse(
                  Obj([error |-> Str("Invalid data_type. Must be: orders, products, or customers")]), 400))
           ELSE Throws("Invalid data_type specified: " \o dt.v)
  ELSE Passes

Validate ==
  /\ pc = "Validate"
  /\ LET o == Validation(variant, store_id, data_type)
     IN IF o = Passes
          THEN pc' = "ResolveCredential" /\ UNCHANGED <<responses, cause>>
          ELSE Finish(o, "validation")
  /\ UNCHANGED <<variant, caller, req, store_id, data_type, store, storeLookup, shopifyResponse, lookups, calls>>
  /\ UNCHANGED viewerVars
  /\ UNCHANGED <<managerVars, normalizerVars, asyncVars>>

\* if (storeError || !store)
StoreMissing(o) == Truthy(o.error) \/ ~Truthy(o.data)

\* A lookup failure reported with the validation status.
NotFoundResponse_ValidationStatus(v, sid) ==
  JsonResponse(Obj([error |-> Str("Store not found")]), 400)

NotFoundResponse(v, sid) ==
  IF v = 1
    THEN JsonResponse(Obj([error |-> Str("Store not found")]), 404)
    ELSE JsonResponse(Obj([error |-> Str("Store with ID " \o ToString(sid.v) \o " not found.")]), 404)

\* createClient(...) and the awaited .from('stores')...single()
ResolveCredential ==
  /\ pc = "ResolveCredential"
  /\ lookups' = lookups + 1
  /\ \E o \in LookupOutcomes(store_id) :
       /\ storeLookup' = o
       /\ IF o.t = "throw"
            THEN Throw(o.message, "fault") /\ UNCHANGED store
          ELSE IF StoreMissing(o)
            THEN Respond(NotFoundResponse(variant, store_id), "lookup", "Failed") /\ UNCHANGED store
          ELSE /\ store' = o.data
               /\ pc' = "CallUpstream"
               /\ UNCHANGED <<responses, cause>>
  /\ UNCHANGED <<variant, caller, req, store_id, data_type, shopifyResponse, calls>>
  /\ UNCHANGED viewerVars
  /\ UNCHANGED <<managerVars, normalizerVars, asyncVars>>

\* if (!shopifyResponse.ok) { ... }
UpstreamFailure(v, r) ==
  IF v = 1
    THEN Responds(JsonResponse(
           Obj([error |-> Str("Shopify API request failed"),
                details |-> Str(ToString(r.status) \o ": " \o r.statusText),
                shopifyError |-> r.body]), r.status))
    ELSE Throws("Shopify API failed with status " \o ToString(r.status) \o ": " \o r.body.v)

\* await fetch(shopifyUrl, { method: 'POST', ... }) and the status check
CallUpstream ==
  /\ pc = "CallUpstream"
  /\ calls' = calls + 1
  /\ \E o \in UpstreamOutcomes(QueryFor(data_type)) :
       IF o.t = "throw"
         THEN Throw(o.message, "transport") /\ UNCHANGED shopifyResponse
       ELSE /\ shopifyResponse' = o
            /\ IF ~Ok(o)
                 THEN Finish(UpstreamFailure(variant, o), "upstream")
                 ELSE pc' = "CheckPayloadErrors" /\ UNCHANGED <<responses, cause>>
  /\ UNCHANGED <<variant, caller, req, store_id, data_type, store, storeLookup, lookups>>
  /\ UNCHANGED viewerVars
  /\ UNCHANGED <<managerVars, normalizerVars, asyncVars>>

\* if (shopifyData.errors) { ... }
PayloadErrors(v, payload) ==
  IF v = 1
    THEN Responds(JsonResponse(
           Obj([error |-> Str("Shopify GraphQL errors"), details |-> Get(payload, "errors")]), 400))
    ELSE Throws("GraphQL error: " \o JSONText(Get(payload, "errors")))

\* The success response of each handler.
SuccessResponse(v, payload) ==
  IF v = 1 THEN JsonResponse(payload, 200) ELSE JsonResponse(Get(payload, "data"), 200)

\* await shopifyResponse.json(), the errors check and the success return
CheckPayloadErrors ==
  /\ pc = "CheckPayloadErrors"
  /\ LET payload == shopifyResponse.body
     IN IF payload.t = "notjson"
          THEN Throw("Unexpected token in JSON", "fault")
        ELSE IF Truthy(Get(payload, "errors"))
          THEN Finish(PayloadErrors(variant, payload), "graphql")
        ELSE Respond(SuccessResponse(variant, payload), "success", "Success")
  /\ UNCHANGED <<variant, caller, req, store_id, data_type, store, storeLookup, shopifyResponse, lookups, calls>>
  /\ UNCHANGED viewerVars
  /\ UNCHANGED <<managerVars, normalizerVars, asyncVars>>

Terminal == {"Acked", "Failed", "Success"}

\* The response reaches a caller other than the Data Viewer.
DirectReturn ==
  /\ pc \in Terminal
  /\ caller = "direct"
  /\ pc' = "Idle"
  /\ UNCHANGED <<variant, caller, req, store_id, data_type, store, storeLookup, shopifyResponse,
                 lookups, calls, responses, cause>>
  /\ UNCHANGED viewerVars
  /\ UNCHANGED <<managerVars, normalizerVars, asyncVars>>


(***************************************************************************)
(* The Data Viewer: fetchData and what starts it.                          *)
(***************************************************************************)
ViewerStores == {1, 2}

\* fetchData up to the awaited supabase.functions.invoke(...)
fetchData(dataType) ==
  /\ loading' = TRUE
  /\ error' = Null
  /\ BeginInvocation([method |-> "POST",
                      body |-> Obj([store_id |-> Num(viewerStore'), data_type |-> Str(dataType)])],
                     "viewer")

\* Index renders <DataViewer store={selectedStore} />: fresh state, then the
\* effect runs fetchData(activeTab).
SelectStore ==
  /\ \E s \in ViewerStores : viewerStore' = s
  /\ activeTab' = "orders"
  /\ data' = << >>
  /\ fetchData("orders")

\* <Tabs onValueChange={setActiveTab}>, then the effect on [store, activeTab].
SwitchTab ==
  /\ \E tab \in QueryKeys \ {activeTab} :
       /\ activeTab' = tab
       /\ UNCHANGED <<viewerStore, data>>
       /\ fetchData(tab)

\* The 'Try again' button, rendered only in the error branch of renderContent.
TryAgain ==
  /\ ~loading
  /\ Truthy(error)
  /\ UNCHANGED <<activeTab, viewerStore, data>>
  /\ fetchData(activeTab)

\* What supabase.functions.invoke resolves to for a response of the proxy.
FunctionsInvoke(r) ==
  IF Ok(r)
    THEN [data |-> r.body, error |-> Null]
    ELSE [data |-> Null,
          error |-> Obj([message |-> Str("Edge Function returned a non-2xx status code")])]

\* edges.map(edge => edge.node)
EdgeNodes(edges) == [i \in 1..Len(edges.v) |-> Get(edges.v[i], "node")]

\* The body of fetchData's try block after the await: the nodes it stores, or
\* the message of the error it throws.
ExtractNodes(r, dataType) ==
  LET inv == FunctionsInvoke(r)
      shopifyData == inv.data
      edgesRead == OptGet(OptGet(Get(shopifyData, "data"), dataType), "edges")
      edges == IF Truthy(edgesRead) THEN edgesRead ELSE Arr(<< >>)
  IN IF Truthy(inv.error) THEN Throws(Get(inv.error, "message").v)
     ELSE IF shopifyData.t \in {"null", "undefined"}
       THEN Throws("Cannot read properties of null (reading 'errors')")
     ELSE IF Truthy(Get(shopifyData, "errors"))
       THEN Throws("Shopify API Error: " \o JSONText(Get(shopifyData, "errors")))
     ELSE IF edges.t # "array" THEN Throws("edges.map is not a function")
     ELSE [t |-> "nodes", nodes |-> EdgeNodes(edges)]

\* fetchData from the resolution of the await to the end of finally.
ViewerReceive ==
  /\ pc \in Terminal
  /\ caller = "viewer"
  /\ LET o == ExtractNodes(responses[1], Get(req.body, "data_type").v)
     IN IF o.t = "nodes"
          THEN data' = o.nodes /\ UNCHANGED error
          ELSE /\ error' = Str(IF o.message # "" THEN o.message ELSE "Failed to fetch data")
               /\ UNCHANGED data
  /\ loading' = FALSE
  /\ pc' = "Idle"
  /\ UNCHANGED <<activeTab, viewerStore>>
  /\ UNCHANGED <<managerVars, normalizerVars, asyncVars>>
  /\ UNCHANGED <<variant, caller, req, store_id, data_type, store, storeLookup, shopifyResponse,
                 lookups, calls, responses, cause>>

Next ==
  \/ DirectInvoke
  \/ SelectStore
  \/ SwitchTab
  \/ TryAgain
  \/ Preflight
  \/ ParseBody
  \/ Validate
  \/ ResolveCredential
  \/ CallUpstream
  \/ CheckPayloadErrors
  \/ DirectReturn
  \/ ViewerReceive

Spec == Init /\ [][Next]_vars


(***************************************************************************)
(* Properties.                                                             *)
(***************************************************************************)
\* The invocation has returned (its response may already have been delivered).
Returned == pc \in Terminal \cup {"Idle"} /\ Len(responses) = 1

PostObject == req.method = "POST" /\ req.body.t = "object"

\* store_id or data_type absent, or data_type not one of the three selectors.
InvalidInput ==
  /\ PostObject
  /\ \/ "store_id" \notin DOMAIN req.body.v
     \/ "data_type" \notin DOMAIN req.body.v
     \/ req.body.v["data_type"].v \notin QueryKeys

\* Both fields present, a usable store_id and one of the three selectors.
ValidRequest ==
  /\ PostObject
  /\ DOMAIN req.body.v = {"store_id", "data_type"}
  /\ Truthy(req.body.v["store_id"])
  /\ req.body.v["data_type"].v \in QueryKeys

\* The status a validation failure is reported with by the deployed handler.
ValidationStatus ==
  LET o == Validation(variant, Undefined, Undefined)
  IN IF o.t = "respond" THEN o.response.status ELSE CatchResponse(variant, o.message).status

\* C1: a request with a missing field or an unrecognized data_type ends in
\* BadRequest (status 400) and makes no credential lookup and no outbound call.
C1_InvalidInputIsBadRequest ==
  InvalidInput /\ pc \notin {"Start", "Validate"} =>
    /\ lookups = 0
    /\ calls = 0
    /\ Len(responses) = 1
    /\ responses[1].status = 400

\* The lookup of this invocation matched no store record or reported an error.
LookupFoundNothing ==
  /\ storeLookup.t = "result"
  /\ (Truthy(storeLookup.error) \/ ~Truthy(storeLookup.data))

\* C2: a valid request whose store lookup finds no record (or reports an
\* error) ends in NotFound with status 404, which is not the status used for
\* validation failures, and makes no outbound call.
C2_UnknownStoreIsNotFound ==
  ValidRequest /\ LookupFoundNothing =>
    /\ pc \in {"Failed", "Idle"}
    /\ Len(responses) = 1
    /\ responses[1].status = 404
    /\ responses[1].status # ValidationStatus
    /\ Get(responses[1].body, "error").t = "string"
    /\ calls = 0

C2_Witness ==
  /\ ValidRequest
  /\ LookupFoundNothing
  /\ pc = "Failed"
  /\ lookups = 1

\* The upstream replied with a non-success status.
UpstreamNotOk == shopifyResponse.t = "response" /\ ~Ok(shopifyResponse)

\* C3: when the upstream replies with a non-success status s and body b, the
\* response has status s and carries b in `details`.
C3_UpstreamStatusMirrored ==
  UpstreamNotOk =>
    /\ Len(responses) = 1
    /\ responses[1].status = shopifyResponse.status
    /\ Get(responses[1].body, "details") = shopifyResponse.body

\* The upstream replied with success and a payload holding an `errors` array.
UpstreamErrorsPayload ==
  /\ shopifyResponse.t = "response"
  /\ Ok(shopifyResponse)
  /\ Get(shopifyResponse.body, "errors").t = "array"

\* C4: a success reply whose payload has a top-level `errors` array is
\* answered with a failure whose `details` is that array, element for element.
C4_GraphQLErrorsVerbatim ==
  UpstreamErrorsPayload /\ pc # "CheckPayloadErrors" =>
    /\ Len(responses) = 1
    /\ ~Ok(responses[1])
    /\ cause = "graphql"
    /\ Get(responses[1].body, "details") = Get(shopifyResponse.body, "errors")

\* The status the failure taxonomy assigns to each failure kind.
ExpectedStatus(c) ==
  CASE c = "validation" -> 400
    [] c = "lookup" -> 404
    [] c = "upstream" -> shopifyResponse.status
    [] OTHER -> 500

\* C5: the status of a failure response is fixed by the failure kind: 400 for
\* validation, 404 for an unknown store, the upstream's status for an upstream
\* failure, 500 for a GraphQL-level failure or an unexpected fault.
C5_StatusByFailureKind ==
  Returned /\ cause \in {"validation", "lookup", "upstream", "graphql", "fault"} =>
    /\ responses[1].status = ExpectedStatus(cause)
    /\ (responses[1].status = 400 /\ cause # "upstream" => cause = "validation")
    /\ (responses[1].status = 404 /\ cause # "upstream" => cause = "lookup")


\* The permissive cross-origin header set.
HasCors(r) ==
  /\ DOMAIN corsHeaders \subseteq DOMAIN r.headers
  /\ \A h \in DOMAIN corsHeaders : r.headers[h] = corsHeaders[h]

\* An OPTIONS request that has been answered.
PreflightAnswered == req.method = "OPTIONS" /\ pc # "Start"

\* Nothing but the method check has run.
NothingElseDone ==
  /\ cause = "preflight"
  /\ store_id = Undefined
  /\ data_type = Undefined
  /\ lookups = 0
  /\ calls = 0
  /\ Len(responses) = 1
  /\ responses[1].status = 200

\* C6 as stated: every response carries the cross-origin headers, and an
\* OPTIONS request is answered with an empty response before anything else.
C6_PreflightEmpty ==
  /\ \A i \in 1..Len(responses) : HasCors(responses[i])
  /\ PreflightAnswered => NothingElseDone /\ responses[1].body = Null

\* C6 as amended: every response carries the cross-origin headers, and an
\* OPTIONS request is answered, whatever its body, with a 200 response whose
\* body is empty (first handler) or the text "ok" (second handler), before
\* the body is parsed and without validation, lookup or outbound call.
C6_CorsEverywhere ==
  /\ \A i \in 1..Len(responses) : HasCors(responses[i])
  /\ PreflightAnswered =>
       /\ NothingElseDone
       /\ responses[1].body = (IF variant = 1 THEN Null ELSE Str("ok"))

C6_Witness ==
  /\ pc = "Acked"
  /\ req.method = "OPTIONS"
  /\ req.body.t = "unparsable"
  /\ variant = 2

\* C7: every failure response has a JSON body { error: string, details?: any }
\* and no other top-level member.
C7_ErrorEnvelope ==
  Returned /\ ~Ok(responses[1]) =>
    /\ responses[1].body.t = "object"
    /\ "error" \in DOMAIN responses[1].body.v
    /\ responses[1].body.v["error"].t = "string"
    /\ DOMAIN responses[1].body.v \subseteq {"error", "details"}

InProgress == {"Start", "Validate", "ResolveCredential", "CallUpstream", "CheckPayloadErrors"}

ProxyStep ==
  \/ Preflight
  \/ ParseBody
  \/ Validate
  \/ ResolveCredential
  \/ CallUpstream
  \/ CheckPayloadErrors

\* C8: every invocation ends with exactly one response: no stage can end in
\* an unhandled fault, a stage in progress has returned nothing and can
\* always take its step, a finished invocation has returned exactly once, and
\* a fault raised by the runtime is answered with the JSON error envelope.
C8_OneResponseAlways ==
  /\ pc # "Unhandled"
  /\ pc \in InProgress => Len(responses) = 0 /\ ENABLED ProxyStep
  /\ pc \in Terminal => Len(responses) = 1
  /\ cause \in {"fault", "transport"} =>
       /\ pc \in {"Failed", "Idle"}
       /\ Len(responses) = 1
       /\ ~Ok(responses[1])
       /\ Get(responses[1].body, "error").t = "string"

C8_Witness ==
  /\ pc = "Failed"
  /\ cause = "fault"
  /\ req.method = "POST"
  /\ req.body.t = "unparsable"
  /\ Len(responses) = 1

\* The stage sequence and the ways out of it.
StageOrder ==
  {<<"Idle", "Start">>, <<"Start", "Validate">>, <<"Validate", "ResolveCredential">>,
   <<"ResolveCredential", "CallUpstream">>, <<"CallUpstream", "CheckPayloadErrors">>,
   <<"CheckPayloadErrors", "Success">>, <<"Start", "Acked">>}
  \cup {<<p, "Failed">> : p \in InProgress}
  \cup {<<p, "Idle">> : p \in Terminal}

\* C9: an invocation goes through Start, Validate, ResolveCredential,
\* CallUpstream, CheckPayloadErrors, Success in that order, leaving it only
\* into a terminal failure; it makes at most one credential lookup and at most
\* one outbound call, exactly one once CallUpstream has run, and does nothing
\* more after a failure.
C9_LinearStages ==
  [][/\ <<pc, pc'>> \in StageOrder
     /\ lookups' <= 1
     /\ calls' <= 1
     /\ (pc = "CallUpstream" => calls' = 1)
     /\ (pc' \in {"CheckPayloadErrors", "Success"} => calls' = 1 /\ lookups' = 1)
     /\ (pc' \in {"Start", "Validate", "ResolveCredential"} => lookups' = 0 /\ calls' = 0)
     /\ (pc = "Failed" => UNCHANGED <<lookups, calls, responses>>)]_vars

C9_Witness ==
  /\ pc = "Success"
  /\ lookups = 1
  /\ calls = 1
  /\ Len(responses) = 1

\* The nodes of the upstream payload for the requested selector, in order.
UpstreamNodes ==
  EdgeNodes(Get(Get(Get(shopifyResponse.body, "data"), Get(req.body, "data_type").v), "edges"))

\* C10: after a successful invocation made by the Data Viewer, the response
\* had success status and the node list the viewer stores is the upstream's
\* sequence of edge nodes, whichever handler is deployed.
C10_ViewerStoresUpstreamNodes ==
  caller = "viewer" /\ cause = "success" /\ pc = "Idle" =>
    /\ Ok(responses[1])
    /\ data = UpstreamNodes


(***************************************************************************)
(* The Store Manager: handleSubmit and its domain rule.                    *)
(***************************************************************************)
\* String.prototype.startsWith / endsWith / includes
StartsWith(str, p) == Len(str) >= Len(p) /\ SubSeq(str, 1, Len(p)) = p
EndsWith(str, p) == Len(str) >= Len(p) /\ SubSeq(str, Len(str) - Len(p) + 1, Len(str)) = p
Includes(str, p) ==
  \E i \in 1..(Len(str) - Len(p) + 1) : SubSeq(str, i, i + Len(p) - 1) = p

\* .replace(/^https?:\/\//, '')
StripProtocol(str) ==
  IF StartsWith(str, "https://") THEN SubSeq(str, 9, Len(str))
  ELSE IF StartsWith(str, "http://") THEN SubSeq(str, 8, Len(str))
  ELSE str

\* .replace(/\/$/, '')
StripTrailingSlash(str) ==
  IF EndsWith(str, "/") THEN SubSeq(str, 1, Len(str) - 1) ELSE str

\* if (!domain.includes('.myshopify.com'))
NeedsNormalizing(domain) == ~Includes(domain, ".myshopify.com")

\* The domain handleSubmit inserts for the typed value.
NormalizeDomain(typed) ==
  IF NeedsNormalizing(typed)
    THEN LET domain == StripTrailingSlash(StripProtocol(typed))
         IN IF ~EndsWith(domain, ".myshopify.com") THEN domain \o ".myshopify.com" ELSE domain
    ELSE typed

\* Values an operator may type into the domain field.
TypedDomains ==
  {p \o "foo" \o x \o t :
     p \in {"", "http://", "https://"},
     x \in {"", ".myshopify.com", ".myshopify.com.evil.io"},
     t \in {"", "/", "//"}}

\* onChange of the form fields.
TypeForm ==
  /\ \E d \in TypedDomains :
       formData' = [store_name |-> "Shop", shopify_domain |-> d, api_access_token |-> "shpat_1"]
  /\ UNCHANGED inserted
  /\ UNCHANGED <<proxyVars, viewerVars, normalizerVars, asyncVars>>

\* handleSubmit: the insert succeeds (the form is reset) or reports an error
\* (shopify_domain is UNIQUE; the form is kept).
handleSubmit ==
  /\ formData.shopify_domain # ""
  /\ LET domain == NormalizeDomain(formData.shopify_domain)
         free == /\ Len(inserted) < MaxInserted
                 /\ \A i \in 1..Len(inserted) : inserted[i].shopify_domain # domain
     IN \E ok \in {TRUE, FALSE} :
          IF ok /\ free
            THEN /\ inserted' = Append(inserted, [typed |-> formData.shopify_domain,
                                                  shopify_domain |-> domain])
                 /\ formData' = [store_name |-> "", shopify_domain |-> "", api_access_token |-> ""]
            ELSE UNCHANGED <<formData, inserted>>
  /\ UNCHANGED <<proxyVars, viewerVars, normalizerVars, asyncVars>>

ManagerNext == TypeForm \/ handleSubmit

ManagerSpec == Init /\ [][ManagerNext]_vars

\* The stored domain the normalization rule of the Store Manager prescribes.
PrescribedDomain(typed) ==
  IF EndsWith(typed, ".myshopify.com") THEN typed
  ELSE LET bare == StripTrailingSlash(StripProtocol(typed))
       IN IF EndsWith(bare, ".myshopify.com") THEN bare ELSE bare \o ".myshopify.com"

\* C11: a typed domain that already ends in .myshopify.com is stored as typed;
\* any other is stored with a leading http:// or https:// and one trailing /
\* removed and .myshopify.com appended, so that https://foo.myshopify.com/ is
\* stored as foo.myshopify.com and foo as foo.myshopify.com.
C11_DomainNormalized ==
  \A i \in 1..Len(inserted) :
    /\ inserted[i].shopify_domain = PrescribedDomain(inserted[i].typed)
    /\ inserted[i].typed = "https://foo.myshopify.com/" => inserted[i].shopify_domain = "foo.myshopify.com"
    /\ inserted[i].typed = "foo" => inserted[i].shopify_domain = "foo.myshopify.com"


(***************************************************************************)
(* The Row Normalizer: processData.                                        *)
(***************************************************************************)
TypeError == [t |-> "TypeError"]

\* a || b
Or(a, b) == IF Truthy(a) THEN a ELSE b

\* ${x} inside a template literal.
TemplateText(x) ==
  CASE x.t = "string" -> x.v
    [] x.t = "number" -> ToString(x.v)
    [] x.t = "null" -> "null"
    [] OTHER -> "undefined"

IsSpace(c) == c \in {" ", "\t", "\n"}

\* String.prototype.trim
RECURSIVE TrimStart(_)
TrimStart(str) ==
  IF Len(str) > 0 /\ IsSpace(SubSeq(str, 1, 1)) THEN TrimStart(SubSeq(str, 2, Len(str))) ELSE str
RECURSIVE TrimEnd(_)
TrimEnd(str) ==
  IF Len(str) > 0 /\ IsSpace(SubSeq(str, Len(str), Len(str)))
    THEN TrimEnd(SubSeq(str, 1, Len(str) - 1)) ELSE str
Trim(str) == TrimEnd(TrimStart(str))

IsDigit(c) == c \in {"0", "1", "2", "3", "4", "5", "6", "7", "8", "9"}
DigitValue(c) ==
  CASE c = "0" -> 0 [] c = "1" -> 1 [] c = "2" -> 2 [] c = "3" -> 3 [] c = "4" -> 4
    [] c = "5" -> 5 [] c = "6" -> 6 [] c = "7" -> 7 [] c = "8" -> 8 [] c = "9" -> 9

\* The leading run of digits of str.
RECURSIVE Digits(_)
Digits(str) ==
  IF Len(str) > 0 /\ IsDigit(SubSeq(str, 1, 1))
    THEN SubSeq(str, 1, 1) \o Digits(SubSeq(str, 2, Len(str))) ELSE ""

RECURSIVE DigitsValue(_, _)
DigitsValue(str, acc) ==
  IF Len(str) = 0 THEN acc
  ELSE DigitsValue(SubSeq(str, 2, Len(str)), 10 * acc + DigitValue(SubSeq(str, 1, 1)))

NaN == [nan |-> TRUE]

\* parseFloat(x) for the text `${x}`: the longest leading decimal, kept in
\* thousandths (amounts carry at most three decimals); NaN without a digit.
ParseFloat(x) ==
  LET str == TrimStart(TemplateText(x))
      whole == Digits(str)
      rest == SubSeq(str, Len(whole) + 1, Len(str))
      frac == IF Len(rest) > 0 /\ SubSeq(rest, 1, 1) = "." THEN Digits(SubSeq(rest, 2, Len(rest))) ELSE ""
      frac3 == SubSeq(frac \o "000", 1, 3)
  IN IF whole = "" /\ frac = "" THEN NaN
     ELSE [nan |-> FALSE, milli |-> 1000 * DigitsValue(whole, 0) + DigitsValue(frac3, 0)]

\* Number.prototype.toFixed(2)
ToFixed2(n) ==
  IF n.nan THEN "NaN"
  ELSE LET cents == (n.milli + 5) \div 10
           c == cents % 100
       IN ToString(cents \div 100) \o "." \o (IF c < 10 THEN "0" ELSE "") \o ToString(c)

\* new Date(x).toLocaleDateString() for an ISO timestamp (en-US, UTC);
\* "Invalid Date" for text that is no timestamp.
LocaleDate(x) ==
  LET str == TemplateText(x)
      y == SubSeq(str, 1, 4)
      m == SubSeq(str, 6, 7)
      d == SubSeq(str, 9, 10)
  IN IF /\ Len(str) >= 10
        /\ Digits(y) = y
        /\ Digits(m) = m
        /\ Digits(d) = d
        /\ SubSeq(str, 5, 5) = "-"
        /\ SubSeq(str, 8, 8) = "-"
       THEN ToString(DigitsValue(m, 0)) \o "/" \o ToString(DigitsValue(d, 0)) \o "/" \o y
       ELSE "Invalid Date"

\* `${money.currencyCode} ${parseFloat(money.amount).toFixed(2)}`
MoneyText(money) ==
  TemplateText(Get(money, "currencyCode")) \o " " \o ToFixed2(ParseFloat(Get(money, "amount")))

\* money ? `...` : 'N/A'
MoneyOrNA(money) == IF Truthy(money) THEN Str(MoneyText(money)) ELSE Str("N/A")

\* x ? new Date(x).toLocaleDateString() : 'N/A'
DateOrNA(x) == IF Truthy(x) THEN Str(LocaleDate(x)) ELSE Str("N/A")

\* A customer name with no fallback to the email.
CustomerName_NoEmail(node) ==
  LET customer == Get(node, "customer")
  IN IF Truthy(customer)
       THEN Or(Str(Trim(TemplateText(Or(Get(customer, "firstName"), Str(""))) \o " "
                        \o TemplateText(Or(Get(customer, "lastName"), Str(""))))),
               Str("Guest"))
       ELSE Str("Guest")

\* node.customer ? `${firstName || ''} ${lastName || ''}`.trim() || email || 'Guest' : 'Guest'
CustomerName(node) ==
  LET customer == Get(node, "customer")
  IN IF Truthy(customer)
       THEN Or(Or(Str(Trim(TemplateText(Or(Get(customer, "firstName"), Str(""))) \o " "
                           \o TemplateText(Or(Get(customer, "lastName"), Str(""))))),
                  Get(customer, "email")),
               Str("Guest"))
       ELSE Str("Guest")

\* { ...node, k1: v1, ... }
Spread(node, derived) ==
  Obj([k \in (IF node.t = "object" THEN DOMAIN node.v ELSE {}) \cup DOMAIN derived |->
         IF k \in DOMAIN derived THEN derived[k] ELSE node.v[k]])

\* The callback of nodes.map in processData; reading a member of a null or
\* undefined node throws.
ProcessNode(node, dataType) ==
  IF dataType \notin QueryKeys THEN node
  ELSE IF node.t \in {"null", "undefined"} THEN TypeError
  ELSE IF dataType = "orders"
    THEN Spread(node, [totalPrice |-> MoneyOrNA(OptGet(Get(node, "totalPriceSet"), "shopMoney")),
                       customerName |-> CustomerName(node),
                       processedAt |-> DateOrNA(Get(node, "processedAt"))])
  ELSE IF dataType = "products"
    THEN Spread(node, [price |-> MoneyOrNA(OptGet(Get(node, "priceRangeV2"), "minVariantPrice")),
                       updatedAt |-> DateOrNA(Get(node, "updatedAt"))])
  ELSE Spread(node, [amountSpent |-> MoneyOrNA(Get(node, "amountSpent"))])

\* processData(nodes, dataType): the rows, or the TypeError the map throws.
processData(nodes, dataType) ==
  IF \E i \in 1..Len(nodes) : ProcessNode(nodes[i], dataType) = TypeError
    THEN TypeError
    ELSE [t |-> "rows", v |-> [i \in 1..Len(nodes) |-> ProcessNode(nodes[i], dataType)]]


Absent == [t |-> "absent"]

\* The object that has the members of f whose value is not absent.
Present(f) == Obj([k \in {k \in DOMAIN f : f[k] # Absent} |-> f[k]])

Monies ==
  {Obj([amount |-> Str(a), currencyCode |-> Str("USD")]) : a \in {"19.99", "3.456"}}
    \cup {Obj([currencyCode |-> Str("USD")])}

Customers ==
  {Present([firstName |-> f, lastName |-> l, email |-> e]) :
     f \in {Str(" "), Str(" Ada")},
     l \in {Null, Str("Lovelace ")},
     e \in {Absent, Str("ada@example.com")}}

Missing == {Absent, Null}

SomeMoney == Obj([amount |-> Str("19.99"), currencyCode |-> Str("USD")])
SomeCustomer == Obj([firstName |-> Str(" Ada"), lastName |-> Str("Lovelace ")])
SomeTimestamp == Str("2024-01-15T10:30:00Z")

\* Order nodes, each member in turn missing, null or malformed.
OrderNodes ==
  {Present([id |-> Str("o1"), totalPriceSet |-> m, customer |-> c, processedAt |-> p]) :
     <<m, c, p>> \in
       (({Absent} \cup {Obj([shopMoney |-> x]) : x \in Monies \cup {Null}})
          \X {SomeCustomer} \X {SomeTimestamp})
       \cup ({Obj([shopMoney |-> SomeMoney])} \X (Missing \cup Customers) \X {SomeTimestamp})
       \cup ({Obj([shopMoney |-> SomeMoney])} \X {SomeCustomer} \X {Absent, Str("yesterday")})}

ProductNodes ==
  {Present([id |-> Str("p1"), priceRangeV2 |-> m, updatedAt |-> u]) :
     <<m, u>> \in
       (({Absent} \cup {Obj([minVariantPrice |-> x]) : x \in {SomeMoney, Null}}) \X {SomeTimestamp})
       \cup ({Obj([minVariantPrice |-> SomeMoney])} \X {Absent, Str("yesterday")})}

CustomerNodes ==
  {Present([id |-> Str("c1"), email |-> Str("ada@example.com"), amountSpent |-> m]) :
     m \in {Null, SomeMoney, Obj([currencyCode |-> Str("USD")])}}

\* What edges.map(edge => edge.node) can hold after one fetch: nodes of one
\* resource, and the null node of an edge that carries none.
NodeLists ==
  UNION {SeqUpTo(kind \cup {Null}, MaxNodes) :
           kind \in {OrderNodes, ProductNodes, CustomerNodes}}

\* setData(nodes) followed by the render of the table.
LoadNodes ==
  \E nodes \in NodeLists :
    /\ inputNodes' = nodes
    /\ rows' = processData(nodes, inputType)
    /\ UNCHANGED <<inputType, proxyVars, viewerVars, managerVars, asyncVars>>

\* setActiveTab(tab): the render that follows shows the rows held so far
\* under the new tab, before the effect starts the next fetch.
RenderUnderTab ==
  \E tab \in QueryKeys :
    /\ tab # inputType
    /\ inputType' = tab
    /\ rows' = processData(inputNodes, tab)
    /\ UNCHANGED <<inputNodes, proxyVars, viewerVars, managerVars, asyncVars>>

NormalizerNext == LoadNodes \/ RenderUnderTab
NormalizerSpec == Init /\ [][NormalizerNext]_vars

\* The derived members of a row under each selector.
DerivedKeys(dataType) ==
  CASE dataType = "orders" -> {"totalPrice", "customerName", "processedAt"}
    [] dataType = "products" -> {"price", "updatedAt"}
    [] dataType = "customers" -> {"amountSpent"}

\* C12: the Row Normalizer is total: for every list of nodes, with any of
\* the optional members or the node itself missing or null, it returns one
\* row per node and every derived member of a row is a string.
C12_NormalizerTotal ==
  /\ rows.t = "rows"
  /\ Len(rows.v) = Len(inputNodes)
  /\ \A i \in 1..Len(rows.v) : \A k \in DerivedKeys(inputType) : Get(rows.v[i], k).t = "string"

\* The display name the rule prescribes for an order node.
PrescribedName(node) ==
  LET customer == Get(node, "customer")
      part(k) == IF Truthy(Get(customer, k)) THEN Get(customer, k).v ELSE ""
      joined == Trim(part("firstName") \o " " \o part("lastName"))
  IN IF ~Truthy(customer) THEN "Guest"
     ELSE IF joined # "" THEN joined
     ELSE IF Truthy(Get(customer, "email")) THEN Get(customer, "email").v
     ELSE "Guest"

\* C13: the customer display name of an order row is the trimmed
\* "first last" when that is non-empty, otherwise the customer's email when
\* that is non-empty, otherwise "Guest"; "Guest" too without a customer.
C13_CustomerNameFallback ==
  (inputType = "orders" /\ rows.t = "rows") =>
    \A i \in 1..Len(rows.v) : Get(rows.v[i], "customerName") = Str(PrescribedName(inputNodes[i]))

C13_Witness ==
  /\ inputType = "orders"
  /\ rows.t = "rows"
  /\ \E i \in 1..Len(rows.v) :
       /\ Truthy(Get(inputNodes[i], "customer"))
       /\ Get(rows.v[i], "customerName") = Str("ada@example.com")


(***************************************************************************)
(* Transport failures of the Proxy Function.                               *)
(***************************************************************************)
\* r is what the handler's catch block makes of any thrown error: status
\* 500 and the envelope built from nothing but the error's message.
GenericInternal(v, r) ==
  /\ r.status = 500
  /\ r.body.t = "object"
  /\ LET key == IF v = 1 THEN "details" ELSE "error"
     IN /\ key \in DOMAIN r.body.v
        /\ r.body.v[key].t = "string"
        /\ r = CatchResponse(v, r.body.v[key].v)

\* C15: when the outbound call itself throws, the caller gets a failure
\* response (nothing is swallowed) and that response differs from the one
\* a generic internal failure produces.
C15_TransportFailureDistinct ==
  Returned /\ cause = "transport" =>
    /\ ~Ok(responses[1])
    /\ ~GenericInternal(variant, responses[1])


(***************************************************************************)
(* The Data Viewer with overlapping fetches.  Each call of fetchData is a  *)
(* record in inflight from its awaited invoke until its finally block; the *)
(* proxy's answer is drawn from the responses its handler can produce.     *)
(***************************************************************************)
\* Index starts with no store selected and shows the Store Manager.
ViewerUnmounted ==
  /\ activeTab = "orders"
  /\ viewerStore = 0
  /\ loading = FALSE
  /\ data = << >>
  /\ error = Null

ViewerInit == ProxyIdle /\ ViewerUnmounted /\ ManagerIdle /\ NormalizerIdle /\ AsyncIdle

\* The response a handler branch ends in: its own, or the catch block's.
ResponseOf(v, o) == IF o.t = "respond" THEN o.response ELSE CatchResponse(v, o.message)

\* The edge lists and error lists the upstream answers the viewer with:
\* no edge or one, one error.
ViewerEdges == {Arr(<< >>)} \cup {Arr(<<Obj([node |-> n])>>) : n \in Nodes}
ViewerErrors == {Arr(<<e>>) : e \in GraphQLErrors}

\* What the deployed handler can answer to the invocation of fetch f.
ProxyResponses(v, f) ==
  LET query == QueryFor(Str(f.dataType))
  IN {NotFoundResponse(v, Num(f.store)), CatchResponse(v, "error sending request")}
     \cup {ResponseOf(v, UpstreamFailure(v, o)) :
             o \in {o \in UpstreamOutcomes(query) : o.t = "response" /\ ~Ok(o)}}
     \cup {ResponseOf(v, PayloadErrors(v, Obj([errors |-> e]))) : e \in ViewerErrors}
     \cup {SuccessResponse(v, Obj([data |-> Obj((Get(query, "root").v :> Obj([edges |-> e])))])) :
             e \in ViewerEdges}

\* fetchData up to its awaited invoke, as its closure sees store and dataType.
StartFetch(storeId, dataType) ==
  /\ started < MaxFetches
  /\ started' = started + 1
  /\ loading' = TRUE
  /\ error' = Null
  /\ inflight' = inflight \cup {[id |-> started + 1, store |-> storeId, dataType |-> dataType]}

\* StoreManager's onStoreSelect: Index mounts a fresh DataViewer, whose
\* effect runs fetchData('orders').
MountViewer ==
  /\ viewerStore = 0
  /\ \E s \in ViewerStores :
       /\ viewerStore' = s
       /\ StartFetch(s, "orders")
  /\ UNCHANGED <<activeTab, data, dataFrom>>
  /\ UNCHANGED <<proxyVars, managerVars, normalizerVars>>

\* 'Back to Stores': Index unmounts the DataViewer; its state is gone and
\* what its pending fetches set later is discarded.
BackToStores ==
  /\ viewerStore # 0
  /\ viewerStore' = 0
  /\ activeTab' = "orders"
  /\ loading' = FALSE
  /\ data' = << >>
  /\ error' = Null
  /\ inflight' = {}
  /\ dataFrom' = NoFetch
  /\ UNCHANGED started
  /\ UNCHANGED <<proxyVars, managerVars, normalizerVars>>

\* Tabs onValueChange while mounted, loading or not, then the effect.
ChangeTab ==
  /\ viewerStore # 0
  /\ \E tab \in QueryKeys \ {activeTab} :
       /\ activeTab' = tab
       /\ StartFetch(viewerStore, tab)
  /\ UNCHANGED <<viewerStore, data, dataFrom>>
  /\ UNCHANGED <<proxyVars, managerVars, normalizerVars>>

\* 'Try again', rendered when error is set and loading is not.
PressTryAgain ==
  /\ viewerStore # 0
  /\ ~loading
  /\ Truthy(error)
  /\ StartFetch(viewerStore, activeTab)
  /\ UNCHANGED <<viewerStore, activeTab, data, dataFrom>>
  /\ UNCHANGED <<proxyVars, managerVars, normalizerVars>>

\* A fetchData whose catch block calls fetchData again.
Settle_AutoRetry(f, o) ==
  IF o.t = "nodes"
    THEN /\ data' = o.nodes
         /\ dataFrom' = f
         /\ loading' = FALSE
         /\ inflight' = inflight \ {f}
         /\ UNCHANGED <<error, started>>
    ELSE /\ started' = IF started < MaxFetches THEN started + 1 ELSE started
         /\ inflight' = (inflight \ {f})
                          \cup (IF started < MaxFetches
                                  THEN {[id |-> started + 1, store |-> f.store, dataType |-> f.dataType]}
                                  ELSE {})
         /\ error' = Null
         /\ loading' = TRUE
         /\ UNCHANGED <<data, dataFrom>>

\* fetchData from the resolution of its await to the end of finally.
Settle(f, o) ==
  /\ IF o.t = "nodes"
       THEN /\ data' = o.nodes
            /\ dataFrom' = f
            /\ UNCHANGED error
       ELSE /\ error' = Str(IF o.message # "" THEN o.message ELSE "Failed to fetch data")
            /\ UNCHANGED <<data, dataFrom>>
  /\ loading' = FALSE
  /\ inflight' = inflight \ {f}
  /\ UNCHANGED started

\* The round trip of one pending fetch resolves.
ResolveFetch ==
  /\ \E f \in inflight : \E r \in ProxyResponses(variant, f) :
       Settle(f, ExtractNodes(r, f.dataType))
  /\ UNCHANGED <<viewerStore, activeTab>>
  /\ UNCHANGED <<proxyVars, managerVars, normalizerVars>>

ViewerNext == MountViewer \/ BackToStores \/ ChangeTab \/ PressTryAgain \/ ResolveFetch
ViewerSpec == ViewerInit /\ [][ViewerNext]_vars

\* C16: loading is true in every state in which a round trip started by
\* fetchData has not resolved yet.
C16_LoadingWhilePending == inflight # {} => loading

\* A step in which the user selects a store, switches tab, or presses the
\* 'Try again' that the error view offers.
UserAction ==
  \/ viewerStore = 0 /\ viewerStore' # 0
  \/ viewerStore # 0 /\ viewerStore' = viewerStore /\ activeTab' # activeTab
  \/ viewerStore # 0 /\ viewerStore' = viewerStore /\ activeTab' = activeTab /\ Truthy(error) /\ ~loading

\* A step in which a pending fetch of the mounted viewer fails.
FetchFails ==
  /\ viewerStore' = viewerStore
  /\ inflight' # inflight
  /\ inflight' \subseteq inflight
  /\ dataFrom' = dataFrom

\* C17: the viewer never retries by itself.  A step starts at most one
\* invocation, only as a user action, for the store and tab then shown, and
\* resolves no fetch; a step in which a fetch fails leaves its message
\* shown, without loading and with no new invocation; a shown error stays
\* until an invocation is started.
C17_NoAutoRetry ==
  [][/\ started' \in {started, started + 1}
     /\ (started' = started + 1 =>
           /\ UserAction
           /\ (viewerStore # 0 => inflight \subseteq inflight')
           /\ inflight' \ inflight =
                {[id |-> started', store |-> viewerStore', dataType |-> activeTab']})
     /\ (started' = started => inflight' \subseteq inflight)
     /\ (FetchFails => Truthy(error') /\ ~loading' /\ started' = started)
     /\ (Truthy(error) /\ started' = started /\ viewerStore' = viewerStore => Truthy(error'))]_vars

\* A fetch has failed, its message is shown, and nothing is in flight.
C17_Witness ==
  /\ started > 0
  /\ inflight = {}
  /\ Truthy(error)
  /\ ~loading

\* C18: with no fetch in flight and no error shown, the nodes held for the
\* table came from the fetch issued for the store and the tab now active.
C18_DataMatchesActiveTab ==
  (viewerStore # 0 /\ started > 0 /\ inflight = {} /\ ~Truthy(error)) =>
    /\ dataFrom.store = viewerStore
    /\ dataFrom.dataType = activeTab

=============================================================================
